---- MODULE Spec2Model ----
(***************************************************************************)
(* PineconeDb (embedchain/vectordb/pinecone.py): the adapter that maps the *)
(* vector-database interface (construct, get, add, query, count,           *)
(* set_collection_name, reset) onto the hosted Pinecone service.           *)
(*                                                                         *)
(* The state is the adapter's fields (config, index_name, client), the     *)
(* remote service's indexes, and the observation of the last call (its     *)
(* arguments, result, error and the remote calls it made).                 *)
(*                                                                         *)
(* The Pinecone service and the embedder are outside the file: a handle    *)
(* (pinecone.Index(name)) addresses an index by its name, a call on a      *)
(* handle whose index is gone raises the service's not-found error, upsert *)
(* inserts or overwrites by id, and query returns at most top_k matches in *)
(* an order of the service's choosing.  An embedder is attached            *)
(* (_initialize only checks that); _get_or_create_db returns self.client.  *)
(*                                                                         *)
(* Strings that the code takes apart (collection and index names) are      *)
(* sequences of one-character strings.  A metadata dict is a function from *)
(* its keys; the dicts a caller passes to add are objects, named by        *)
(* reference, because add writes into them.                                *)
(***************************************************************************)
EXTENDS Integers, Sequences, FiniteSets, TLC

\* ------------------------------------------------------------------ bounds
\* longest documents / metadatas / ids / input_query list passed to a call
MaxLen == 2
\* largest n_results passed to query
MaxK == 2
\* number of add calls made on one adapter
MaxAdds == 2

\* ------------------------------------------------------------- input sets
Min(a, b) == IF a < b THEN a ELSE b
Max(a, b) == IF a > b THEN a ELSE b
Range(s) == { s[i] : i \in 1..Len(s) }

\* collection names, as sequences of characters
Names == { <<"A", "_", "b">>, <<"c", ".", "d">> }
Dimensions == {12}
Metrics == {"cosine"}
\* the caller's metadata dict objects (a list may hold the same object twice)
MetaRefs == {"m1", "m2"}
Generations == {"old", "new"}

\* the i-th text of a document list of generation g
Text(g, i) == <<g, i>>

\* documents: the first l texts of one generation
DocLists == { [i \in 1..l |-> Text(g, i)] : g \in Generations, l \in 0..MaxLen }

\* ids: id1 and id2 in turn, starting with either
IdLists ==
    { [i \in 1..l |-> IF (first + i) % 2 = 1 THEN "id1" ELSE "id2"] :
        first \in 0..1, l \in 0..MaxLen }

\* metadatas: one dict object for every record, or two objects in turn
RefLists ==
    { [i \in 1..l |-> IF shared \/ i % 2 = 1 THEN "m1" ELSE "m2"] :
        shared \in BOOLEAN, l \in 0..MaxLen }

\* the arguments of add: three lists of equal length, or one list shorter than
\* the two others
AddArgs ==
    { a \in DocLists \X RefLists \X IdLists :
        LET longest == Max(Len(a[1]), Max(Len(a[2]), Len(a[3])))
        IN  Cardinality({ i \in 1..3 : Len(a[i]) = longest }) >= 2 }

\* where: a set of <<key, value>> pairs ({} filters nothing)
Wheres == { {}, { <<"text", Text("old", 1)>> } }

\* ------------------------------------------------------------------ strings
\* str(int): decimal digits of a non-negative integer
Digit(d) ==
    CASE d = 0 -> "0" [] d = 1 -> "1" [] d = 2 -> "2" [] d = 3 -> "3"
      [] d = 4 -> "4" [] d = 5 -> "5" [] d = 6 -> "6" [] d = 7 -> "7"
      [] d = 8 -> "8" [] OTHER -> "9"

RECURSIVE Str(_)
Str(n) == IF n < 10 THEN <<Digit(n)>> ELSE Str(n \div 10) \o <<Digit(n % 10)>>

\* str.lower() on the characters the model uses
LowerChar(c) ==
    CASE c = "A" -> "a" [] c = "B" -> "b" [] c = "C" -> "c" [] c = "D" -> "d"
      [] OTHER -> c

Lower(s) == [i \in 1..Len(s) |-> LowerChar(s[i])]

\* str.replace(old, new) for single characters
Replace(s, old, new) == [i \in 1..Len(s) |-> IF s[i] = old THEN new ELSE s[i]]

\* f"{collection_name}-{dimension}".lower().replace("_", "-")
_get_index_name(cfg) ==
    Replace(Lower(cfg.collection_name \o <<"-">> \o Str(cfg.dimension)), "_", "-")

\* ----------------------------------------------------------- configuration
Configs ==
    [collection_name : Names, dimension : Dimensions, metric : Metrics]

NoConfig == [collection_name |-> <<>>, dimension |-> 0, metric |-> ""]

\* ------------------------------------------------- the remote service
\* The service is a function from index names to indexes; an index holds its
\* metric, its dimension and its vectors (a function from ids to records).
NoVectors == [x \in {} |-> x]
NoIndexes == [x \in {} |-> x]

\* the names of the indexes (None and the empty list are the same to the caller)
list_indexes(svc) == DOMAIN svc

create_index(svc, name, metric, dimension) ==
    (name :> [metric |-> metric, dimension |-> dimension, vectors |-> NoVectors]) @@ svc

delete_index(svc, name) == [n \in (DOMAIN svc) \ {name} |-> svc[n]]

\* upsert: insert-or-overwrite by id, record after record
RECURSIVE UpsertFrom(_, _, _)
UpsertFrom(vectors, docs, i) ==
    IF i > Len(docs) THEN vectors
    ELSE UpsertFrom(
            (docs[i].id :> [values |-> docs[i].values, metadata |-> docs[i].metadata])
                @@ vectors,
            docs, i + 1)

upsert(svc, name, docs) ==
    [svc EXCEPT ![name].vectors = UpsertFrom(@, docs, 1)]

describe_index_stats(svc, name) ==
    [total_vector_count |-> Cardinality(DOMAIN svc[name].vectors)]

\* a metadata filter: a set of <<key, value>> pairs every match must carry
Passes(metadata, where) ==
    \A kv \in where : kv[1] \in DOMAIN metadata /\ metadata[kv[1]] = kv[2]

Injective(s) == \A i, j \in 1..Len(s) : s[i] = s[j] => i = j

\* query: the service ranks the records that pass the filter and returns the
\* top_k best; the ranking is the service's, so every order is possible.
QueryResponses(svc, name, top_k, where) ==
    LET vectors == svc[name].vectors
        hits == { id \in DOMAIN vectors : Passes(vectors[id].metadata, where) }
        n == Min(top_k, Cardinality(hits))
    IN  { [i \in 1..n |-> [id |-> order[i], metadata |-> vectors[order[i]].metadata]] :
            order \in { s \in [1..n -> hits] : Injective(s) } }

\* the embedding provider: one vector per text
Embed(text) == <<"vec", text>>
embedding_fn(texts) == [i \in 1..Len(texts) |-> Embed(texts[i])]

\* ------------------------------------------------------------ the adapter
VARIABLES
    constructed,   \* an adapter object exists
    config,        \* self.config
    index_name,    \* self.index_name
    client,        \* self.client: a handle, bound to an index by name
    indexes,       \* the remote service
    op,            \* the last call
    args,          \* its arguments
    ret,           \* its result
    err,           \* the error it raised, or "None"
    calls,         \* the remote calls it made, in order
    batch,         \* the records its upsert call carried
    request,       \* the query it sent to the service
    matches,       \* the matches that query got back
    hist,          \* what has been added through the adapter so far
    nAdds          \* add calls made so far

vars == <<constructed, config, index_name, client, indexes, op, args, ret, err,
          calls, batch, request, matches, hist, nAdds>>

NoHandle == <<>>
NoArgs ==
    [config |-> "", name |-> [isstr |-> TRUE, val |-> <<>>], documents |-> <<>>,
     metadatas |-> <<>>, ids |-> <<>>, input_query |-> <<>>, n_results |-> 0,
     where |-> {}]
NoRet == [count |-> -1, texts |-> <<>>, ids |-> {}, handle |-> NoHandle]
NoRequest == [vector |-> <<>>, top_k |-> 0, filter |-> {}]
NoHist == [clean |-> FALSE, ids |-> {}, latest |-> NoVectors]

\* index setup that creates the index without looking at the service's list
SetupAlwaysCreates(svc, cfg) ==
    LET name == _get_index_name(cfg)
    IN  [index_name |-> name,
         svc |-> create_index(delete_index(svc, name), name, cfg.metric, cfg.dimension),
         calls |-> <<"init", "list_indexes", "create_index", "Index">>,
         handle |-> name]

\* Loads the Pinecone index or creates it if not present (the caller decides
\* what to do with the handle).
_setup_pinecone_index(svc, cfg) ==
    LET name == _get_index_name(cfg)
        listed == list_indexes(svc)
        absent == name \notin listed
    IN  [index_name |-> name,
         svc |-> IF absent
                 THEN create_index(svc, name, cfg.metric, cfg.dimension)
                 ELSE svc,
         calls |-> <<"init", "list_indexes">>
                   \o (IF absent THEN <<"create_index">> ELSE <<>>)
                   \o <<"Index">>,
         handle |-> name]

\* the indexes another adapter may have left at the service
StoredRecord(text) == [values |-> Embed(text), metadata |-> ("text" :> text)]
InitServices ==
    {NoIndexes}
    \cup { _get_index_name(c) :>
               [metric |-> c.metric, dimension |-> c.dimension,
                vectors |-> "id1" :> StoredRecord(Text("old", 1))] :
             c \in { cc \in Configs : cc.collection_name = <<"A", "_", "b">> } }

Init ==
    /\ constructed = FALSE
    /\ config = NoConfig
    /\ index_name = <<>>
    /\ client = NoHandle
    /\ indexes \in InitServices
    /\ op = "none"
    /\ args = NoArgs
    /\ ret = NoRet
    /\ err = "None"
    /\ calls = <<>>
    /\ batch = <<>>
    /\ request = NoRequest
    /\ matches = <<>>
    /\ hist = NoHist
    /\ nAdds = 0

\* what has been added to the index the handle is bound to: nothing yet when
\* that index is empty (or gone), else the records found in it
HistOf(svc, handle) ==
    IF handle \notin DOMAIN svc \/ svc[handle].vectors = NoVectors
    THEN [clean |-> TRUE, ids |-> {}, latest |-> NoVectors]
    ELSE [clean |-> FALSE, ids |-> {},
          latest |-> [id \in DOMAIN svc[handle].vectors |->
                        svc[handle].vectors[id].metadata["text"]]]

ConfigKinds == {"None", "PineconeDbConfig", "other"}

\* a type check that lets every object through
IsAnyObject(kind) == TRUE

\* isinstance(config, PineconeDbConfig)
IsPineconeDbConfig(kind) == kind = "PineconeDbConfig"

\* PineconeDb(config).  `kind` is the type of the argument; `cfg` is the
\* configuration it carries (for None, the one PineconeDbConfig() builds,
\* which may be any).  The parent's __init__ runs last and touches none of
\* the fields below.
__init__(kind, cfg) ==
    /\ ~constructed
    /\ op' = "__init__"
    /\ args' = [NoArgs EXCEPT !.config = kind]
    /\ ret' = NoRet
    /\ batch' = <<>>
    /\ request' = NoRequest
    /\ matches' = <<>>
    /\ UNCHANGED nAdds
    /\ IF kind # "None" /\ ~IsPineconeDbConfig(kind)
       THEN /\ err' = "TypeError"
            /\ calls' = <<>>
            /\ UNCHANGED <<constructed, config, index_name, client, indexes, hist>>
       ELSE LET s == _setup_pinecone_index(indexes, cfg)
            IN  /\ err' = "None"
                /\ constructed' = TRUE
                /\ config' = cfg
                /\ index_name' = s.index_name
                /\ indexes' = s.svc
                /\ client' = s.handle
                /\ calls' = s.calls
                /\ hist' = HistOf(s.svc, s.handle)

\* the frame of a call that reads or writes nothing of the adapter's fields
Observe(o, a) ==
    /\ op' = o
    /\ args' = a

\* get(ids, where, limit): the ids of a similarity query around the zero vector
get(where) ==
    /\ constructed
    /\ Observe("get", [NoArgs EXCEPT !.where = where])
    /\ batch' = <<>>
    /\ UNCHANGED <<constructed, config, index_name, client, indexes, hist, nAdds>>
    /\ IF client \notin DOMAIN indexes
       THEN /\ err' = "NotFoundException"
            /\ calls' = <<"describe_index_stats">>
            /\ ret' = NoRet
            /\ request' = NoRequest
            /\ matches' = <<>>
       ELSE LET zero_vector == [i \in 1..config.dimension |-> 0]
                top_k == Max(1, describe_index_stats(indexes, client).total_vector_count)
            IN  \E results \in QueryResponses(indexes, client, top_k, where) :
                /\ err' = "None"
                /\ calls' = <<"describe_index_stats", "query">>
                /\ request' = [vector |-> zero_vector, top_k |-> top_k, filter |-> where]
                /\ matches' = results
                /\ ret' = [NoRet EXCEPT !.ids = { results[i].id : i \in 1..Len(results) }]

\* the caller's metadata dicts before the call
CallerDicts == [r \in MetaRefs |-> NoVectors]

\* metadata["text"] = text, on the dict object itself
SetText(heap, ref, text) == [heap EXCEPT ![ref] = ("text" :> text) @@ @]

RECURSIVE AttachTexts(_, _, _, _, _)
AttachTexts(heap, documents, metadatas, i, m) ==
    IF i > m THEN heap
    ELSE AttachTexts(SetText(heap, metadatas[i], documents[i]),
                     documents, metadatas, i + 1, m)

\* a zip that stops one tuple early
ZipLenDropsLast(a, b, c, d) ==
    Max(0, Min(Min(Len(a), Len(b)), Min(Len(c), Len(d))) - 1)

\* the number of tuples zip() yields
ZipLen(a, b, c, d) == Min(Min(Len(a), Len(b)), Min(Len(c), Len(d)))

\* the docs list add() hands to upsert: each doc holds its metadata dict by
\* reference (ref), so it carries what that dict holds once the loop is over
BuildDocs(documents, metadatas, ids) ==
    LET embeddings == embedding_fn(documents)
        m == ZipLen(ids, documents, metadatas, embeddings)
        heap == AttachTexts(CallerDicts, documents, metadatas, 1, m)
    IN  [i \in 1..m |->
            [id |-> ids[i], values |-> embeddings[i],
             metadata |-> heap[metadatas[i]], ref |-> metadatas[i]]]

\* what the caller supplied, position by position: the text last given for an id
RECURSIVE Supplied(_, _, _, _, _)
Supplied(latest, documents, ids, i, m) ==
    IF i > m THEN latest
    ELSE Supplied((ids[i] :> documents[i]) @@ latest, documents, ids, i + 1, m)

add(documents, metadatas, ids) ==
    /\ constructed
    /\ nAdds < MaxAdds
    /\ nAdds' = nAdds + 1
    /\ Observe("add", [NoArgs EXCEPT !.documents = documents,
                                      !.metadatas = metadatas, !.ids = ids])
    /\ ret' = NoRet
    /\ request' = NoRequest
    /\ matches' = <<>>
    /\ UNCHANGED <<constructed, config, index_name, client>>
    /\ LET docs == BuildDocs(documents, metadatas, ids)
       IN  /\ batch' = docs
           /\ calls' = <<"upsert">>
           /\ IF client \notin DOMAIN indexes
              THEN /\ err' = "NotFoundException"
                   /\ UNCHANGED <<indexes, hist>>
              ELSE /\ err' = "None"
                   /\ indexes' = upsert(indexes, client, docs)
                   /\ hist' =
                        LET equal == Len(documents) = Len(ids)
                                     /\ Len(metadatas) = Len(ids)
                            m == Min(Len(documents), Min(Len(metadatas), Len(ids)))
                        IN  [clean |-> hist.clean /\ equal,
                             ids |-> hist.ids \cup Range(ids),
                             latest |-> Supplied(hist.latest, documents, ids, 1, m)]

\* the texts of the matches, last match first
MatchTextsReversed(contents) ==
    [i \in 1..Len(contents) |-> contents[Len(contents) + 1 - i].metadata["text"]]

\* list(map(lambda content: content["metadata"]["text"], contents["matches"]))
MatchTexts(contents) == [i \in 1..Len(contents) |-> contents[i].metadata["text"]]

\* the query lists a caller passes
QueryLists == { [i \in 1..l |-> Text("new", i)] : l \in 0..MaxLen }

query(input_query, n_results, where) ==
    /\ constructed
    /\ Observe("query", [NoArgs EXCEPT !.input_query = input_query,
                                        !.n_results = n_results, !.where = where])
    /\ batch' = <<>>
    /\ UNCHANGED <<constructed, config, index_name, client, indexes, hist, nAdds>>
    /\ LET input_query_vector == embedding_fn(input_query)
       IN  IF Len(input_query_vector) = 0
           THEN /\ err' = "IndexError"
                /\ calls' = <<>>
                /\ ret' = NoRet
                /\ request' = NoRequest
                /\ matches' = <<>>
           ELSE LET query_vector == input_query_vector[1]
                    sent == [vector |-> query_vector, top_k |-> n_results,
                             filter |-> where]
                IN  /\ calls' = <<"query">>
                    /\ request' = sent
                    /\ IF client \notin DOMAIN indexes
                       THEN /\ err' = "NotFoundException"
                            /\ ret' = NoRet
                            /\ matches' = <<>>
                       ELSE \E contents \in QueryResponses(indexes, client,
                                                           sent.top_k, sent.filter) :
                            /\ err' = "None"
                            /\ matches' = contents
                            /\ ret' = [NoRet EXCEPT !.texts = MatchTexts(contents)]

\* the values a caller passes as a collection name
NameArgs ==
    { [isstr |-> TRUE, val |-> n] : n \in Names }
    \cup { [isstr |-> FALSE, val |-> <<>>] }

\* a set_collection_name that also re-derives index_name from the new name
SetCollectionNameRenamesIndex(name) ==
    /\ constructed
    /\ Observe("set_collection_name", [NoArgs EXCEPT !.name = name])
    /\ ret' = NoRet
    /\ calls' = <<>>
    /\ batch' = <<>>
    /\ request' = NoRequest
    /\ matches' = <<>>
    /\ UNCHANGED <<constructed, client, indexes, hist, nAdds>>
    /\ IF ~name.isstr
       THEN /\ err' = "TypeError"
            /\ UNCHANGED <<config, index_name>>
       ELSE /\ err' = "None"
            /\ config' = [config EXCEPT !.collection_name = name.val]
            /\ index_name' = _get_index_name(config')

set_collection_name(name) ==
    /\ constructed
    /\ Observe("set_collection_name", [NoArgs EXCEPT !.name = name])
    /\ ret' = NoRet
    /\ calls' = <<>>
    /\ batch' = <<>>
    /\ request' = NoRequest
    /\ matches' = <<>>
    /\ UNCHANGED <<constructed, index_name, client, indexes, hist, nAdds>>
    /\ IF ~name.isstr
       THEN /\ err' = "TypeError"
            /\ UNCHANGED config
       ELSE /\ err' = "None"
            /\ config' = [config EXCEPT !.collection_name = name.val]

count ==
    /\ constructed
    /\ Observe("count", NoArgs)
    /\ calls' = <<"describe_index_stats">>
    /\ batch' = <<>>
    /\ request' = NoRequest
    /\ matches' = <<>>
    /\ UNCHANGED <<constructed, config, index_name, client, indexes, hist, nAdds>>
    /\ IF client \notin DOMAIN indexes
       THEN /\ err' = "NotFoundException"
            /\ ret' = NoRet
       ELSE /\ err' = "None"
            /\ ret' = [NoRet EXCEPT !.count =
                         describe_index_stats(indexes, client).total_vector_count]

\* reset(): delete_index(self.index_name), then _setup_pinecone_index(), whose
\* handle is not kept
reset ==
    /\ constructed
    /\ Observe("reset", NoArgs)
    /\ ret' = NoRet
    /\ batch' = <<>>
    /\ request' = NoRequest
    /\ matches' = <<>>
    /\ UNCHANGED <<constructed, config, client, nAdds>>
    /\ IF index_name \notin DOMAIN indexes
       THEN /\ err' = "NotFoundException"
            /\ calls' = <<"delete_index">>
            /\ UNCHANGED <<index_name, indexes, hist>>
       ELSE LET s == _setup_pinecone_index(delete_index(indexes, index_name), config)
            IN  /\ err' = "None"
                /\ calls' = <<"delete_index">> \o s.calls
                /\ index_name' = s.index_name
                /\ indexes' = s.svc
                /\ hist' = IF index_name = client \/ client \notin DOMAIN indexes
                            THEN HistOf(s.svc, client)
                            ELSE hist

Next ==
    \/ \E kind \in ConfigKinds, cfg \in Configs : __init__(kind, cfg)
    \/ \E where \in Wheres : get(where)
    \/ \E a \in AddArgs : add(a[1], a[2], a[3])
    \/ \E input_query \in QueryLists, n_results \in 1..MaxK, where \in Wheres :
          query(input_query, n_results, where)
    \/ \E name \in NameArgs : set_collection_name(name)
    \/ count
    \/ reset

Spec == Init /\ [][Next]_vars

\* A call of _setup_pinecone_index() on the constructed adapter, by a caller
\* that only looks at the handle it returns.
call_setup_pinecone_index ==
    /\ constructed
    /\ Observe("_setup_pinecone_index", NoArgs)
    /\ batch' = <<>>
    /\ request' = NoRequest
    /\ matches' = <<>>
    /\ UNCHANGED <<constructed, config, client, nAdds>>
    /\ LET s == _setup_pinecone_index(indexes, config)
       IN  /\ err' = "None"
           /\ calls' = s.calls
           /\ index_name' = s.index_name
           /\ indexes' = s.svc
           /\ ret' = [NoRet EXCEPT !.handle = s.handle]
           /\ hist' = IF client \notin DOMAIN indexes
                       THEN HistOf(s.svc, client)
                       ELSE hist

NextSetup ==
    \/ \E kind \in ConfigKinds, cfg \in Configs : __init__(kind, cfg)
    \/ \E where \in Wheres : get(where)
    \/ \E name \in NameArgs : set_collection_name(name)
    \/ count
    \/ reset
    \/ call_setup_pinecone_index

\* the life of the indexes: construction, renaming, reset, and index setup
\* called on its own
SpecSetup == Init /\ [][NextSetup]_vars

\* ------------------------------------------------------------------ claims
Has(seq, x) == \E i \in 1..Len(seq) : seq[i] = x

\* the number of vectors the handle's index holds
Stored(svc, handle) == Cardinality(DOMAIN svc[handle].vectors)

\* C1: reset() followed by count(): the count succeeds and returns 0.
C1_ResetThenCountIsZero ==
    [][(op = "reset" /\ err = "None" /\ op' = "count")
          => (err' = "None" /\ ret'.count = 0)]_vars

\* the characters an index name may hold: lowercase alphanumerics and "-"
IndexNameChars ==
    {"a", "b", "c", "d", "0", "1", "2", "3", "4", "5", "6", "7", "8", "9", "-"}

\* a string with every character outside IndexNameChars replaced with "-"
Sanitized(s) == [i \in 1..Len(s) |-> IF s[i] \in IndexNameChars THEN s[i] ELSE "-"]

\* C2: the index name derived from a configuration is
\* lower(collection_name + "-" + dimension) with every character that is not
\* alphanumeric or "-" replaced with "-", so it holds only lowercase
\* alphanumerics and "-".
C2_IndexNameIsSanitized ==
    (op \in {"__init__", "reset"} /\ err = "None")
        => /\ index_name =
                Sanitized(Lower(config.collection_name \o <<"-">> \o Str(config.dimension)))
           /\ \A i \in 1..Len(index_name) : index_name[i] \in IndexNameChars

C4_CountIsDistinctIds ==
    (op = "count" /\ err = "None" /\ hist.clean) => ret.count = Cardinality(hist.ids)

\* two add calls on a clean index, with ids that overlap, then count
C4_Witness ==
    /\ op = "count" /\ err = "None" /\ hist.clean
    /\ nAdds = 2
    /\ ret.count = 2

\* C5: set_collection_name with a string changes config.collection_name and
\* nothing else: not index_name, not the handle, not the remote indexes; it
\* makes no remote call.
C5_SetCollectionNameFrame ==
    [][(op' = "set_collection_name" /\ args'.name.isstr)
          => /\ err' = "None"
             /\ config' = [config EXCEPT !.collection_name = args'.name.val]
             /\ index_name' = index_name
             /\ client' = client
             /\ indexes' = indexes
             /\ calls' = <<>>]_vars

\* a rename took place: the configuration no longer derives index_name
C5_Witness ==
    /\ op = "set_collection_name" /\ err = "None"
    /\ _get_index_name(config) # index_name
    /\ Stored(indexes, client) > 0

\* C6: constructing with a config that is neither None nor a PineconeDbConfig
\* raises before any remote call: the service is unchanged and no adapter
\* exists.
C6_BadConfigRaisesFirst ==
    [][(op' = "__init__" /\ args'.config \notin {"None", "PineconeDbConfig"} /\ ~constructed)
          => /\ err' = "TypeError"
             /\ calls' = <<>>
             /\ indexes' = indexes
             /\ ~constructed']_vars

C6_Witness ==
    /\ op = "__init__" /\ args.config = "other"
    /\ err = "TypeError"
    /\ indexes # NoIndexes

\* C7: index setup creates the index only when its derived name is absent
\* from the service; every index that exists is left as it is, with its
\* records; afterwards an index of the derived name exists; a second run with
\* the same configuration changes nothing and creates nothing.
C7_SetupIsIdempotent ==
    [][(op' = "_setup_pinecone_index")
          => /\ index_name' = _get_index_name(config)
             /\ index_name' \in DOMAIN indexes'
             /\ Has(calls', "create_index") <=> index_name' \notin DOMAIN indexes
             /\ \A n \in DOMAIN indexes : n \in DOMAIN indexes' /\ indexes'[n] = indexes[n]
             /\ DOMAIN indexes' \subseteq DOMAIN indexes \cup {index_name'}
             /\ (op = "_setup_pinecone_index" /\ config' = config)
                   => (indexes' = indexes /\ ~Has(calls', "create_index"))]_vars

\* setup ran on an index that exists and holds a record, and created nothing
C7_Witness ==
    /\ op = "_setup_pinecone_index"
    /\ ~Has(calls, "create_index")
    /\ index_name \in DOMAIN indexes
    /\ indexes[index_name].vectors # NoVectors

\* C8: query returns at most n_results strings: the "text" of each match the
\* service returned for the first query's embedding, one per match, in the
\* service's order.
C8_QueryReturnsMatchTexts ==
    (op = "query" /\ err = "None")
        => /\ request.vector = Embed(args.input_query[1])
           /\ request.top_k = args.n_results
           /\ Len(ret.texts) <= args.n_results
           /\ Len(ret.texts) = Len(matches)
           /\ \A i \in 1..Len(matches) : ret.texts[i] = matches[i].metadata["text"]

\* a query of two strings that got two matches with different texts
C8_Witness ==
    /\ op = "query" /\ err = "None"
    /\ Len(args.input_query) = 2
    /\ Len(ret.texts) = 2
    /\ ret.texts[1] # ret.texts[2]

\* C9: after construction the handle is bound to an index that exists and is
\* the one index_name names.
C9_HandleIsTheLiveIndex ==
    constructed => (client \in DOMAIN indexes /\ client = index_name)

\* C10: add with lists of different lengths raises nothing and makes one
\* upsert call with the first m records paired by position, m the shortest
\* length.
C10_AddTruncatesToShortest ==
    (op = "add"
       /\ ~(Len(args.documents) = Len(args.ids) /\ Len(args.metadatas) = Len(args.ids)))
        => LET m == Min(Len(args.documents), Min(Len(args.metadatas), Len(args.ids)))
           IN  /\ err = "None"
               /\ calls = <<"upsert">>
               /\ Len(batch) = m
               /\ \A i \in 1..m :
                     /\ batch[i].id = args.ids[i]
                     /\ batch[i].values = Embed(args.documents[i])
                     /\ batch[i].ref = args.metadatas[i]

====
